---- MODULE Spec2Model ----
(***************************************************************************)
(* Shamir (t, N) secret sharing over GF(p) as implemented by               *)
(* ShamirSecretSharingParticipant (src/mpc/shamir_secret_sharing.py), its  *)
(* base class MPCParticipant (src/mpc/participant.py) and the orchestrating *)
(* MPCSigningProtocol (src/mpc/signing_protocol.py).                       *)
(*                                                                         *)
(* Specifications:                                                         *)
(*   Spec           one participant object: construction, generate_shares  *)
(*                  and reconstruct_secret calls made by a caller          *)
(*   SpecModInverse direct calls of _mod_inverse                           *)
(*   SpecSecrecy    an observer of fewer than t shares counting the        *)
(*                  polynomials consistent with what it sees               *)
(*   SpecProtocol   one MPCSigningProtocol object                          *)
(***************************************************************************)
EXTENDS Integers, Sequences, FiniteSets, TLC

VARIABLES participant, gen, rec, inv, secrecy, protocol,
          prev, threads, channels, ccall, pcall

\* the variables of the specifications of repeated and interleaved calls, of
\* two secure channels, and of the calls made on a protocol object
ext == <<prev, threads, channels, ccall, pcall>>

vars == <<participant, gen, rec, inv, secrecy, protocol, ext>>

(***************************************************************************)
(* Bounds of the model.                                                    *)
(***************************************************************************)
\* largest num_participants a participant or protocol is constructed with
MaxN == 4
\* the shared primes are the primes up to MaxPrime
MaxPrime == 7
\* _mod_inverse is called with a in -MaxA..MaxA
MaxA == 20
\* a participant is constructed only with parameters for which generate_shares
\* chooses among at most MaxPolys polynomials (secret and random coefficients)
MaxPolys == 625

\* largest num_participants an MPCSigningProtocol is constructed with
MaxProtocolN == 3

\* largest number shared_prime ^ threshold of coefficient vectors of a
\* participant that is called repeatedly
MaxReusePolys == 9

\* largest number shared_prime ^ num_participants of share lists of full
\* length passed to a participant's reconstruct_secret
MaxLists == 125

\* largest number shared_prime ^ num_participants and shared_prime ^
\* threshold of a participant whose methods run interleaved
MaxConcLists == 8

\* Python's None
None == -1

\* SECP256k1 scaled down: a cyclic group of prime order CurveOrder, written
\* additively as the integers mod CurveOrder, with generator CurveGenerator
CurveOrder == 5
CurveGenerator == 3

IsPrime(n) == n >= 2 /\ \A d \in 2..(n - 1) : n % d # 0

Primes == {n \in 2..MaxPrime : IsPrime(n)}

RECURSIVE Power(_, _)
Power(b, e) == IF e <= 0 THEN 1 ELSE b * Power(b, e - 1)

\* the constructor arguments <<num_participants, shared_prime, threshold>>
\* of the model: any threshold from 0 to num_participants + 1, or None
Configs ==
    {c \in (1..MaxN) \X Primes \X ((0..(MaxN + 1)) \cup {None}) :
        /\ c[3] <= c[1] + 1
        /\ Power(c[2], IF c[3] = None THEN c[1] ELSE c[3]) <= MaxPolys}

(***************************************************************************)
(* Python integer arithmetic.  // is floor division and % takes the sign   *)
(* of the divisor; both are total for a non-zero divisor of either sign.   *)
(***************************************************************************)
PyFloorDiv(x, m) == IF m > 0 THEN x \div m ELSE (-x) \div (-m)

PyMod(x, m) == IF m > 0 THEN x % m ELSE -((-x) % (-m))

\* pow(b, e, m) for e >= 0
RECURSIVE PyPow(_, _, _)
PyPow(b, e, m) == IF e = 0 THEN PyMod(1, m) ELSE PyMod(b * PyPow(b, e - 1, m), m)

(***************************************************************************)
(* _mod_inverse: the nested egcd and the test of the gcd it returns.       *)
(***************************************************************************)
\* egcd(a, b) -> <<g, x, y>>
RECURSIVE egcd(_, _)
egcd(a, b) ==
    IF a = 0
    THEN <<b, 0, 1>>
    ELSE LET r == egcd(PyMod(b, a), a)
             g == r[1]
             y == r[2]
             x == r[3]
         IN  <<g, x - PyFloorDiv(b, a) * y, y>>

\* _mod_inverse without the test g != 1
ModInverse_Unchecked(a, m) ==
    [outcome |-> "return", value |-> PyMod(egcd(a, m)[2], m)]

\* the outcome of self._mod_inverse(a, m)
ModInverse(a, m) ==
    LET r == egcd(a, m)
    IN  IF r[1] # 1
        THEN [outcome |-> "Exception", value |-> 0]
        ELSE [outcome |-> "return", value |-> PyMod(r[2], m)]

(***************************************************************************)
(* generate_shares                                                         *)
(***************************************************************************)
\* the number of secrets.randbelow calls of one generate_shares call:
\* for _ in range(self.threshold - 1)
NumDraws(self) == IF self.threshold - 1 > 0 THEN self.threshold - 1 ELSE 0

\* EvalShare with the power of the term off by one: pow(i, j + 1, p)
RECURSIVE EvalShare_PowerOffByOne(_, _, _, _, _)
EvalShare_PowerOffByOne(coefficients, i, p, j, share) ==
    IF j >= Len(coefficients)
    THEN share
    ELSE EvalShare_PowerOffByOne(coefficients, i, p, j + 1,
            PyMod(share + PyMod(coefficients[j + 1] * PyPow(i, j + 1, p), p), p))

\* the inner loop over enumerate(coefficients), from index j on (0-based)
RECURSIVE EvalShare(_, _, _, _, _)
EvalShare(coefficients, i, p, j, share) ==
    IF j >= Len(coefficients)
    THEN share
    ELSE LET coeff == coefficients[j + 1]
             term == PyMod(coeff * PyPow(i, j, p), p)
         IN  EvalShare(coefficients, i, p, j + 1, PyMod(share + term, p))

\* generate_shares evaluating at the points 0..N-1: range(self.num_participants)
GenerateShares_FromZero(self, secret, draws) ==
    IF ~(0 <= secret /\ secret < self.shared_prime)
    THEN [outcome |-> "ValueError", shares |-> <<>>, coefficients |-> <<>>,
          ndraws |-> 0]
    ELSE [outcome |-> "return",
          shares |-> [i \in 1..self.num_participants |->
                         EvalShare(<<secret>> \o SubSeq(draws, 1, NumDraws(self)),
                                   i - 1, self.shared_prime, 0, 0)],
          coefficients |-> <<secret>> \o SubSeq(draws, 1, NumDraws(self)),
          ndraws |-> NumDraws(self)]

\* generate_shares with coefficients fixed once and for all instead of drawn
GenerateShares_FixedCoefficients(self, secret, draws) ==
    IF ~(0 <= secret /\ secret < self.shared_prime)
    THEN [outcome |-> "ValueError", shares |-> <<>>, coefficients |-> <<>>,
          ndraws |-> 0]
    ELSE [outcome |-> "return",
          shares |-> [i \in 1..self.num_participants |->
                         EvalShare(<<secret>> \o [n \in 1..NumDraws(self) |-> 1],
                                   i, self.shared_prime, 0, 0)],
          coefficients |-> <<secret>> \o [n \in 1..NumDraws(self) |-> 1],
          ndraws |-> NumDraws(self)]

\* generate_shares with the range check 0 <= secret <= self.shared_prime
GenerateShares_AcceptsPrime(self, secret, draws) ==
    IF ~(0 <= secret /\ secret <= self.shared_prime)
    THEN [outcome |-> "ValueError", shares |-> <<>>, coefficients |-> <<>>,
          ndraws |-> 0]
    ELSE [outcome |-> "return",
          shares |-> [i \in 1..self.num_participants |->
                         EvalShare(<<secret>> \o SubSeq(draws, 1, NumDraws(self)),
                                   i, self.shared_prime, 0, 0)],
          coefficients |-> <<secret>> \o SubSeq(draws, 1, NumDraws(self)),
          ndraws |-> NumDraws(self)]

\* generate_shares refusing a modulus that is not above num_participants
GenerateShares_GuardsModulus(self, secret, draws) ==
    IF \/ ~(0 <= secret /\ secret < self.shared_prime)
       \/ self.num_participants >= self.shared_prime
    THEN [outcome |-> "ValueError", shares |-> <<>>, coefficients |-> <<>>,
          ndraws |-> 0]
    ELSE [outcome |-> "return",
          shares |-> [i \in 1..self.num_participants |->
                         EvalShare(<<secret>> \o SubSeq(draws, 1, NumDraws(self)),
                                   i, self.shared_prime, 0, 0)],
          coefficients |-> <<secret>> \o SubSeq(draws, 1, NumDraws(self)),
          ndraws |-> NumDraws(self)]

\* the outcome of self.generate_shares(secret) when the random source
\* returns draws[1], draws[2], ... ; ndraws counts the randbelow calls made
GenerateShares(self, secret, draws) ==
    IF ~(0 <= secret /\ secret < self.shared_prime)
    THEN [outcome |-> "ValueError", shares |-> <<>>, coefficients |-> <<>>,
          ndraws |-> 0]
    ELSE LET coefficients == <<secret>> \o SubSeq(draws, 1, NumDraws(self))
         IN  [outcome |-> "return",
              shares |-> [i \in 1..self.num_participants |->
                             EvalShare(coefficients, i, self.shared_prime, 0, 0)],
              coefficients |-> coefficients,
              ndraws |-> NumDraws(self)]

(***************************************************************************)
(* reconstruct_secret                                                      *)
(***************************************************************************)
\* Basis with the numerator built from x_j instead of 0 - x_j
RECURSIVE Basis_PositiveNodes(_, _, _, _, _)
Basis_PositiveNodes(i, t, p, j, nd) ==
    IF j >= t
    THEN nd
    ELSE IF i # j
         THEN Basis_PositiveNodes(i, t, p, j + 1,
                    <<PyMod(nd[1] * (j + 1), p),
                      PyMod(nd[2] * ((i + 1) - (j + 1)), p)>>)
         ELSE Basis_PositiveNodes(i, t, p, j + 1, nd)

\* the loop "for j in range(t)" of the basis polynomial of share i
\* (i, j 0-based; x_coords[j] = j + 1), carrying <<numerator, denominator>>
RECURSIVE Basis(_, _, _, _, _)
Basis(i, t, p, j, nd) ==
    IF j >= t
    THEN nd
    ELSE IF i # j
         THEN Basis(i, t, p, j + 1,
                    <<PyMod(nd[1] * (-(j + 1)), p),
                      PyMod(nd[2] * ((i + 1) - (j + 1)), p)>>)
         ELSE Basis(i, t, p, j + 1, nd)

\* the loop "for i in range(t)": an exception of _mod_inverse ends the call.
\* AddTerm is the rest of one iteration, given the basis <<numerator,
\* denominator>> and the outcome of _mod_inverse(denominator, p)
RECURSIVE Interpolate(_, _, _, _, _)
\* AddTerm with the numerator alone as Lagrange coefficient
AddTerm_NumeratorOnly(shares, t, p, i, secret, nd, inverse) ==
    IF inverse.outcome # "return"
    THEN [outcome |-> inverse.outcome, value |-> 0]
    ELSE Interpolate(shares, t, p, i + 1,
                     PyMod(secret + PyMod(shares[i + 1] * PyMod(nd[1], p), p), p))

AddTerm(shares, t, p, i, secret, nd, inverse) ==
    IF inverse.outcome # "return"
    THEN [outcome |-> inverse.outcome, value |-> 0]
    ELSE LET lagrange_coef == PyMod(nd[1] * inverse.value, p)
             term == PyMod(shares[i + 1] * lagrange_coef, p)
         IN  Interpolate(shares, t, p, i + 1, PyMod(secret + term, p))

InverseOfBasis(shares, t, p, i, secret, nd) ==
    AddTerm(shares, t, p, i, secret, nd, ModInverse(nd[2], p))

Interpolate(shares, t, p, i, secret) ==
    IF i >= t
    THEN [outcome |-> "return", value |-> secret]
    ELSE InverseOfBasis(shares, t, p, i, secret, Basis(i, t, p, 0, <<1, 1>>))

\* reconstruct_secret without the truncation to the first threshold shares
ReconstructSecret_NoTruncation(self, shares) ==
    [warned |-> Len(shares) < self.threshold, used |-> shares, list |-> shares]
        @@ Interpolate(shares, Len(shares), self.shared_prime, 0, 0)

\* reconstruct_secret raising ValueError below the threshold, as its
\* docstring has it, instead of logging a warning
ReconstructSecret_RejectsFewShares(self, shares) ==
    IF Len(shares) < self.threshold
    THEN [warned |-> FALSE, used |-> shares, list |-> shares,
          outcome |-> "ValueError", value |-> 0]
    ELSE [warned |-> FALSE, list |-> shares,
          used |-> SubSeq(shares, 1, self.threshold)]
            @@ Interpolate(SubSeq(shares, 1, self.threshold), self.threshold,
                           self.shared_prime, 0, 0)

\* reconstruct_secret truncating the caller's list itself: del shares[t:]
ReconstructSecret_TruncatesInPlace(self, shares) ==
    LET k == Len(shares)
        used == IF k > self.threshold THEN SubSeq(shares, 1, self.threshold)
                ELSE shares
        t == IF k > self.threshold THEN self.threshold ELSE k
    IN  [warned |-> k < self.threshold, used |-> used, list |-> used]
            @@ Interpolate(used, t, self.shared_prime, 0, 0)

\* the outcome of self.reconstruct_secret(shares); used is the list the
\* interpolation ran on (the local name shares, rebound to a slice when the
\* list is longer than threshold), list the caller's list after the call,
\* warned whether logger.warning was called
ReconstructSecret(self, shares) ==
    LET k == Len(shares)
        used == IF k > self.threshold THEN SubSeq(shares, 1, self.threshold)
                ELSE shares
        t == IF k > self.threshold THEN self.threshold ELSE k
    IN  [warned |-> k < self.threshold, used |-> used, list |-> shares]
            @@ Interpolate(used, t, self.shared_prime, 0, 0)

(***************************************************************************)
(* The participant object and the calls made on it.                        *)
(***************************************************************************)
\* SecureChannel.__init__: a fresh RSA key pair and a fresh Fernet key, here
\* the key material numbered k; the partner keys are unset
NewSecureChannel(k) ==
    [private_key |-> k, public_key |-> k, symmetric_key |-> k,
     partner_public_key |-> None, partner_symmetric_key |-> None,
     partner_fernet |-> None]

\* The values passed to and returned by a channel.  A value has a Python
\* type and is plain data, a Fernet token (data encrypted under the Fernet
\* key numbered key) or an RSA-OAEP ciphertext (data encrypted under the
\* public key numbered key).  The byte strings that are Fernet keys are the
\* one-byte strings <<k>> with k >= 1; <<0>> is a byte string that is none.
PyBytes(data) == [type |-> "bytes", form |-> "plain", key |-> None, data |-> data]

PyStr(data) == [type |-> "str", form |-> "plain", key |-> None, data |-> data]

PyNone == [type |-> "NoneType", form |-> "plain", key |-> None, data |-> <<>>]

\* Fernet(key).encrypt(data)
FernetEncrypt(key, data) ==
    [type |-> "bytes", form |-> "fernet", key |-> key, data |-> data]

\* public_key.encrypt(data, OAEP)
RsaEncrypt(public_key, data) ==
    [type |-> "bytes", form |-> "rsa", key |-> public_key, data |-> data]

\* Fernet(data) accepts data as a key
IsFernetKey(data) == Len(data) = 1 /\ data[1] >= 1

\* a call's result: how it ended, what it returned, the channel afterwards
Returns(value, channel) ==
    [outcome |-> "return", value |-> value, channel |-> channel]

Raises(exception, channel) ==
    [outcome |-> exception, value |-> PyNone, channel |-> channel]

\* encrypt without the isinstance check
Encrypt_Unchecked(channel, message) ==
    Returns(FernetEncrypt(channel.symmetric_key, message.data), channel)

\* SecureChannel.encrypt: Fernet encryption under the channel's own key
Encrypt(channel, message) ==
    IF message.type # "bytes"
    THEN Raises("TypeError", channel)
    ELSE Returns(FernetEncrypt(channel.symmetric_key, message.data), channel)

\* SecureChannel.decrypt: Fernet decryption under the channel's own key
Decrypt(channel, encrypted_message) ==
    IF encrypted_message.type # "bytes"
    THEN Raises("TypeError", channel)
    ELSE IF /\ encrypted_message.form = "fernet"
            /\ encrypted_message.key = channel.symmetric_key
         THEN Returns(PyBytes(encrypted_message.data), channel)
         ELSE Raises("InvalidToken", channel)

\* SecureChannel.get_public_key
GetPublicKey(channel) == channel.public_key

\* SecureChannel.set_partner_public_key
SetPartnerPublicKey(channel, partner_public_key) ==
    Returns(PyNone, [channel EXCEPT !.partner_public_key = partner_public_key])

\* SecureChannel.exchange_symmetric_key: the channel's own Fernet key under
\* the partner's public key
ExchangeSymmetricKey(channel) ==
    IF channel.partner_public_key = None
    THEN Raises("ValueError", channel)
    ELSE Returns(RsaEncrypt(channel.partner_public_key,
                            <<channel.symmetric_key>>), channel)

\* SecureChannel.receive_symmetric_key: private_key.decrypt succeeds on a
\* ciphertext made with the channel's public key; partner_symmetric_key is
\* assigned before Fernet() examines the key
ReceiveSymmetricKey(channel, encrypted_symmetric_key) ==
    IF \/ encrypted_symmetric_key.type # "bytes"
       \/ encrypted_symmetric_key.form # "rsa"
       \/ encrypted_symmetric_key.key # channel.private_key
    THEN Raises("ValueError", channel)
    ELSE IF ~IsFernetKey(encrypted_symmetric_key.data)
         THEN Raises("ValueError",
                     [channel EXCEPT !.partner_symmetric_key =
                                        encrypted_symmetric_key.data[1]])
         ELSE Returns(PyNone,
                      [channel EXCEPT !.partner_symmetric_key =
                                         encrypted_symmetric_key.data[1],
                                      !.partner_fernet =
                                         encrypted_symmetric_key.data[1]])

\* encrypt_for_partner under the channel's own key
EncryptForPartner_OwnKey(channel, message) ==
    IF channel.partner_fernet = None
    THEN Raises("ValueError", channel)
    ELSE Encrypt(channel, message)

\* SecureChannel.encrypt_for_partner; Fernet.encrypt raises TypeError for
\* data that is not bytes
EncryptForPartner(channel, message) ==
    IF channel.partner_fernet = None
    THEN Raises("ValueError", channel)
    ELSE IF message.type # "bytes"
         THEN Raises("TypeError", channel)
         ELSE Returns(FernetEncrypt(channel.partner_fernet, message.data),
                      channel)

\* SecureChannel.decrypt_from_partner, for an argument of type bytes
DecryptFromPartner(channel, encrypted_message) ==
    IF channel.partner_fernet = None
    THEN Raises("ValueError", channel)
    ELSE IF /\ encrypted_message.form = "fernet"
            /\ encrypted_message.key = channel.partner_fernet
         THEN Returns(PyBytes(encrypted_message.data), channel)
         ELSE Raises("InvalidToken", channel)

\* str(n).encode() for n >= 0: the ASCII codes of the decimal digits
RECURSIVE StrEncode(_)
StrEncode(n) ==
    IF n < 10 THEN <<48 + n>> ELSE StrEncode(n \div 10) \o <<48 + (n % 10)>>

NoParticipant ==
    [exists |-> FALSE, id |-> 0, num_participants |-> 0, shared_prime |-> 0,
     threshold |-> 0, shares |-> <<>>, secure_channel |-> NewSecureChannel(0)]

\* MPCParticipant.__init__ (inherited unchanged by the Shamir participant)
NewParticipant(id, num_participants, shared_prime, threshold) ==
    [exists |-> TRUE, id |-> id, num_participants |-> num_participants,
     shared_prime |-> shared_prime,
     threshold |-> IF threshold # None THEN threshold ELSE num_participants,
     shares |-> <<>>, secure_channel |-> NewSecureChannel(id + 1)]

\* draws are the values secrets.randbelow returned during the call
NoGen ==
    [op |-> "idle", secret |-> 0, outcome |-> "none", shares |-> <<>>,
     coefficients |-> <<>>, ndraws |-> 0, draws |-> <<>>]

\* input is the list passed, list the same list object after the call
NoRec ==
    [op |-> "idle", indices |-> {}, input |-> <<>>, outcome |-> "none",
     value |-> 0, warned |-> FALSE, used |-> <<>>, list |-> <<>>]

NoInv == [op |-> "idle", a |-> 0, m |-> 0, outcome |-> "none", value |-> 0]

NoSecrecy == [stage |-> "idle", indices |-> {}, values |-> <<>>, counts |-> <<>>]

\* no MPCSigningProtocol object; args are the constructor's arguments
NoProtocol ==
    [status |-> "none", args |-> <<0, 0>>, num_participants |-> 0,
     threshold |-> 0, shared_prime |-> 0, participants |-> <<>>,
     private_key |-> None, public_key |-> None, key_shares |-> <<>>]

\* no call made yet on a channel or on the protocol object
NoCall ==
    [op |-> "idle", who |-> "", args |-> <<>>, outcome |-> "none",
     result |-> PyNone, src |-> [op |-> "input", who |-> "", args |-> <<>>]]

\* no call made yet on the protocol object: sign_message, verify_signature
\* or setup_secure_channels
NoPCall ==
    [op |-> "idle", message |-> "", signature |-> <<0, 0>>,
     outcome |-> "none", result |-> <<0, 0>>, valid |-> FALSE]

\* the elements of seq at the indices of I, in ascending index order
RECURSIVE Pick(_, _)
Pick(seq, I) ==
    IF I = {}
    THEN <<>>
    ELSE LET m == CHOOSE x \in I : \A y \in I : x <= y
         IN  <<seq[m]>> \o Pick(seq, I \ {m})

\* the share lists a caller holding n shares passes on: every prefix, and
\* every t of the n shares
InputChoices(n, t) ==
    {1..k : k \in 1..n} \cup {I \in SUBSET (1..n) : Cardinality(I) = t /\ t > 0}

\* no earlier call, no call in progress, no channel pair, no call record
ExtIdle ==
    /\ prev = NoGen
    /\ threads = <<>>
    /\ channels = <<>>
    /\ ccall = NoCall
    /\ pcall = NoPCall

Init ==
    /\ participant = NoParticipant
    /\ gen = NoGen
    /\ rec = NoRec
    /\ inv = NoInv
    /\ secrecy = NoSecrecy
    /\ protocol = NoProtocol
    /\ ExtIdle

\* ShamirSecretSharingParticipant(0, num_participants, shared_prime, threshold)
Construct(num_participants, shared_prime, threshold) ==
    /\ ~participant.exists
    /\ participant' = NewParticipant(0, num_participants, shared_prime, threshold)
    /\ UNCHANGED <<gen, rec, inv, secrecy, protocol, ext>>

\* shares = participant.generate_shares(secret); under Spec the caller shares
\* one secret per participant object and then reconstructs from that list
CallGenerateShares(secret, draws) ==
    /\ participant.exists
    /\ gen.op = "idle"
    /\ \E r \in {GenerateShares(participant, secret, draws)} :
          gen' = [op |-> "called", secret |-> secret, outcome |-> r.outcome,
                  shares |-> r.shares, coefficients |-> r.coefficients,
                  ndraws |-> r.ndraws,
                  draws |-> [n \in 1..r.ndraws |-> draws[n]]]
    /\ rec' = NoRec
    /\ UNCHANGED <<participant, inv, secrecy, protocol, ext>>

\* participant.reconstruct_secret([shares[i - 1] for i in sorted(I)])
CallReconstructSecret(I) ==
    /\ participant.exists
    /\ gen.outcome = "return"
    /\ \E r \in {ReconstructSecret(participant, Pick(gen.shares, I))} :
          rec' = [op |-> "called", indices |-> I, input |-> Pick(gen.shares, I),
                  outcome |-> r.outcome, value |-> r.value,
                  warned |-> r.warned, used |-> r.used, list |-> r.list]
    /\ UNCHANGED <<participant, gen, inv, secrecy, protocol, ext>>

Next ==
    \/ \E c \in Configs : Construct(c[1], c[2], c[3])
    \/ \E secret \in -1..participant.shared_prime :
       \E draws \in [1..NumDraws(participant) -> 0..(participant.shared_prime - 1)] :
          CallGenerateShares(secret, draws)
    \/ \E I \in InputChoices(Len(gen.shares), participant.threshold) :
          CallReconstructSecret(I)

Spec == Init /\ [][Next]_vars

(***************************************************************************)
(* One participant object called again and again: prev is the             *)
(* generate_shares call before the last one.                               *)
(***************************************************************************)
ReuseConfigs ==
    {c \in Configs :
        Power(c[2], IF c[3] = None THEN c[1] ELSE c[3]) <= MaxReusePolys}

InitReuse ==
    /\ participant \in {NewParticipant(0, c[1], c[2], c[3]) : c \in ReuseConfigs}
    /\ gen = NoGen
    /\ rec = NoRec
    /\ inv = NoInv
    /\ secrecy = NoSecrecy
    /\ protocol = NoProtocol
    /\ ExtIdle

\* participant.generate_shares(secret), any number of times
Regenerate(secret, draws) ==
    /\ \E r \in {GenerateShares(participant, secret, draws)} :
          gen' = [op |-> "called", secret |-> secret, outcome |-> r.outcome,
                  shares |-> r.shares, coefficients |-> r.coefficients,
                  ndraws |-> r.ndraws,
                  draws |-> [n \in 1..r.ndraws |-> draws[n]]]
    /\ prev' = gen
    /\ UNCHANGED <<participant, rec, inv, secrecy, protocol,
                   threads, channels, ccall, pcall>>

NextReuse ==
    \/ \E secret \in -1..participant.shared_prime :
       \E draws \in [1..NumDraws(participant) -> 0..(participant.shared_prime - 1)] :
          Regenerate(secret, draws)
    \/ \E I \in InputChoices(Len(gen.shares), participant.threshold) :
          CallReconstructSecret(I)

SpecReuse == InitReuse /\ [][NextReuse]_vars

(***************************************************************************)
(* reconstruct_secret on any list of values of GF(shared_prime), whatever  *)
(* its origin.                                                             *)
(***************************************************************************)
ListConfigs == {c \in Configs : Power(c[2], c[1]) <= MaxLists}

InitLists ==
    /\ participant \in {NewParticipant(0, c[1], c[2], c[3]) : c \in ListConfigs}
    /\ gen = NoGen
    /\ rec = NoRec
    /\ inv = NoInv
    /\ secrecy = NoSecrecy
    /\ protocol = NoProtocol
    /\ ExtIdle

\* participant.reconstruct_secret(shares)
CallReconstructOn(shares) ==
    /\ \E r \in {ReconstructSecret(participant, shares)} :
          rec' = [op |-> "called", indices |-> {}, input |-> shares,
                  outcome |-> r.outcome, value |-> r.value,
                  warned |-> r.warned, used |-> r.used, list |-> r.list]
    /\ UNCHANGED <<participant, gen, inv, secrecy, protocol, ext>>

NextLists ==
    \E k \in 1..participant.num_participants :
    \E shares \in [1..k -> 0..(participant.shared_prime - 1)] :
       CallReconstructOn(shares)

SpecLists == InitLists /\ [][NextLists]_vars

(***************************************************************************)
(* generate_shares and reconstruct_secret statement by statement, called   *)
(* from two threads on one participant.  A frame holds one call's          *)
(* parameters and local variables under the names of the source; arg is    *)
(* what the caller passed, draws what secrets.randbelow returned to this   *)
(* call.                                                                   *)
(***************************************************************************)
Threads == {1, 2}

NoFrame ==
    [op |-> "idle", pc |-> "idle", arg |-> <<>>, draws |-> <<>>,
     secret |-> 0, coefficients |-> <<>>, shares |-> <<>>, i |-> 0, j |-> 0,
     share |-> 0, t |-> 0, numerator |-> 0, denominator |-> 0,
     outcome |-> "none", result |-> <<>>]

\* the call has ended: its frame is gone, the caller holds the result
Done(f, outcome, result) ==
    [NoFrame EXCEPT !.op = f.op, !.pc = "done", !.arg = f.arg,
                    !.draws = f.draws, !.outcome = outcome, !.result = result]

\* one step of generate_shares in the frame f
StepGenerate(f, self, draw) ==
    CASE f.pc = "check" ->
            IF ~(0 <= f.secret /\ f.secret < self.shared_prime)
            THEN Done(f, "ValueError", <<>>)
            ELSE [f EXCEPT !.coefficients = <<f.secret>>, !.pc = "draw"]
      [] f.pc = "draw" ->
            IF Len(f.coefficients) - 1 < self.threshold - 1
            THEN [f EXCEPT !.coefficients = Append(@, draw),
                           !.draws = Append(@, draw)]
            ELSE [f EXCEPT !.shares = <<>>, !.i = 1, !.pc = "outer"]
      [] f.pc = "outer" ->
            IF f.i > self.num_participants
            THEN Done(f, "return", f.shares)
            ELSE [f EXCEPT !.share = 0, !.j = 0, !.pc = "inner"]
      [] f.pc = "inner" ->
            IF f.j < Len(f.coefficients)
            THEN [f EXCEPT
                    !.share = PyMod(@ + PyMod(f.coefficients[f.j + 1]
                                        * PyPow(f.i, f.j, self.shared_prime),
                                        self.shared_prime), self.shared_prime),
                    !.j = @ + 1]
            ELSE [f EXCEPT !.shares = Append(@, f.share), !.i = @ + 1,
                           !.share = 0, !.j = 0, !.pc = "outer"]

\* the rest of an iteration of "for i in range(t)" after _mod_inverse
AfterInverse(f, self, inverse) ==
    IF inverse.outcome # "return"
    THEN Done(f, inverse.outcome, <<>>)
    ELSE [f EXCEPT
            !.secret = PyMod(@ + PyMod(f.shares[f.i + 1]
                                * PyMod(f.numerator * inverse.value,
                                        self.shared_prime),
                                self.shared_prime), self.shared_prime),
            !.i = @ + 1, !.numerator = 0, !.denominator = 0, !.j = 0,
            !.pc = "outer"]

\* one step of reconstruct_secret in the frame f
StepReconstruct(f, self) ==
    CASE f.pc = "len" ->
            [f EXCEPT !.t = Len(f.shares), !.pc = "truncate"]
      [] f.pc = "truncate" ->
            IF f.t > self.threshold
            THEN [f EXCEPT !.shares = SubSeq(@, 1, self.threshold),
                           !.t = self.threshold,
                           !.secret = 0, !.i = 0, !.pc = "outer"]
            ELSE [f EXCEPT !.secret = 0, !.i = 0, !.pc = "outer"]
      [] f.pc = "outer" ->
            IF f.i >= f.t
            THEN Done(f, "return", <<f.secret>>)
            ELSE [f EXCEPT !.numerator = 1, !.denominator = 1, !.j = 0,
                           !.pc = "inner"]
      [] f.pc = "inner" ->
            IF f.j >= f.t
            THEN [f EXCEPT !.pc = "inverse"]
            ELSE IF f.i # f.j
                 THEN [f EXCEPT
                         !.numerator = PyMod(@ * (-(f.j + 1)), self.shared_prime),
                         !.denominator = PyMod(@ * ((f.i + 1) - (f.j + 1)),
                                               self.shared_prime),
                         !.j = @ + 1]
                 ELSE [f EXCEPT !.j = @ + 1]
      [] f.pc = "inverse" ->
            AfterInverse(f, self, ModInverse(f.denominator, self.shared_prime))

\* a step with the accumulator share kept in one place for all calls
StepCall_SharedAccumulator(frames, th, self, draw) ==
    [x \in DOMAIN frames |->
        IF x = th
        THEN IF frames[th].op = "generate_shares"
             THEN StepGenerate(frames[th], self, draw)
             ELSE StepReconstruct(frames[th], self)
        ELSE IF frames[th].op = "generate_shares"
             THEN [frames[x] EXCEPT
                     !.share = StepGenerate(frames[th], self, draw).share]
             ELSE frames[x]]

\* a step of the call of thread th: it reads the participant and reads and
\* writes the call's own frame
StepCall(frames, th, self, draw) ==
    [frames EXCEPT ![th] = IF frames[th].op = "generate_shares"
                           THEN StepGenerate(frames[th], self, draw)
                           ELSE StepReconstruct(frames[th], self)]

ConcConfigs ==
    {c \in Configs :
        /\ Power(c[2], c[1]) <= MaxConcLists
        /\ Power(c[2], IF c[3] = None THEN c[1] ELSE c[3]) <= MaxConcLists}

InitThreads ==
    /\ participant \in {NewParticipant(0, c[1], c[2], c[3]) : c \in ConcConfigs}
    /\ gen = NoGen
    /\ rec = NoRec
    /\ inv = NoInv
    /\ secrecy = NoSecrecy
    /\ protocol = NoProtocol
    /\ prev = NoGen
    /\ threads = [th \in Threads |-> NoFrame]
    /\ channels = <<>>
    /\ ccall = NoCall
    /\ pcall = NoPCall

ThreadFrame == UNCHANGED <<participant, gen, rec, inv, secrecy, protocol,
                           prev, channels, ccall, pcall>>

\* thread th calls participant.generate_shares(secret)
StartGenerate(th, secret) ==
    /\ threads[th].pc \in {"idle", "done"}
    /\ threads' = [threads EXCEPT ![th] =
                      [NoFrame EXCEPT !.op = "generate_shares", !.pc = "check",
                                      !.arg = <<secret>>, !.secret = secret]]
    /\ ThreadFrame

\* thread th calls participant.reconstruct_secret(shares)
StartReconstruct(th, shares) ==
    /\ threads[th].pc \in {"idle", "done"}
    /\ threads' = [threads EXCEPT ![th] =
                      [NoFrame EXCEPT !.op = "reconstruct_secret", !.pc = "len",
                                      !.arg = shares, !.shares = shares]]
    /\ ThreadFrame

\* thread th runs the next statement of its call
Step(th) ==
    /\ threads[th].pc \notin {"idle", "done"}
    /\ \E draw \in IF threads[th].pc = "draw"
                    THEN 0..(participant.shared_prime - 1) ELSE {0} :
          threads' = StepCall(threads, th, participant, draw)
    /\ ThreadFrame

NextThreads ==
    \E th \in Threads :
       \/ \E secret \in -1..participant.shared_prime : StartGenerate(th, secret)
       \/ \E k \in 1..participant.num_participants :
          \E shares \in [1..k -> 0..(participant.shared_prime - 1)] :
             StartReconstruct(th, shares)
       \/ Step(th)

SpecThreads == InitThreads /\ [][NextThreads]_vars

(***************************************************************************)
(* Direct calls of _mod_inverse (the method reads nothing of self).        *)
(***************************************************************************)
CallModInverse(a, m) ==
    /\ \E r \in {ModInverse(a, m)} :
          inv' = [op |-> "called", a |-> a, m |-> m, outcome |-> r.outcome,
                  value |-> r.value]
    /\ UNCHANGED <<participant, gen, rec, secrecy, protocol, ext>>

NextModInverse == \E a \in -MaxA..MaxA, m \in 2..MaxPrime : CallModInverse(a, m)

SpecModInverse == Init /\ [][NextModInverse]_vars

(***************************************************************************)
(* An observer of the shares at some indices: for the values it sees it    *)
(* counts, secret by secret, the coefficient draws of generate_shares that *)
(* produce these values.                                                   *)
(***************************************************************************)
\* the participants whose shares are observed: num_participants < shared_prime
InitSecrecy ==
    /\ participant \in {NewParticipant(0, c[1], c[2], c[3]) :
                           c \in {d \in Configs : d[1] < d[2]}}
    /\ gen = NoGen
    /\ rec = NoRec
    /\ inv = NoInv
    /\ secrecy = NoSecrecy
    /\ protocol = NoProtocol
    /\ ExtIdle

\* the draws of generate_shares(secret) that yield values[i] at every i in I
Consistent(self, secret, I, values) ==
    {draws \in [1..NumDraws(self) -> 0..(self.shared_prime - 1)] :
        \A i \in I : GenerateShares(self, secret, draws).shares[i] = values[i]}

\* the observer holds the shares at the indices I, fewer than threshold
Observe(I, values) ==
    /\ secrecy.stage = "idle"
    /\ Cardinality(I) < participant.threshold
    /\ secrecy' = [stage |-> "counting", indices |-> I, values |-> values,
                   counts |-> <<>>]
    /\ UNCHANGED <<participant, gen, rec, inv, protocol, ext>>

\* counts[s + 1] is the number of draws consistent with secret s
CountSecret ==
    /\ secrecy.stage = "counting"
    /\ Len(secrecy.counts) < participant.shared_prime
    /\ secrecy' = [secrecy EXCEPT !.counts =
                      Append(@, Cardinality(Consistent(participant, Len(@),
                                     secrecy.indices, secrecy.values)))]
    /\ UNCHANGED <<participant, gen, rec, inv, protocol, ext>>

NextSecrecy ==
    \/ \E I \in SUBSET (1..participant.num_participants) :
       \E values \in [I -> 0..(participant.shared_prime - 1)] :
          Observe(I, values)
    \/ CountSecret

SpecSecrecy == InitSecrecy /\ [][NextSecrecy]_vars

(***************************************************************************)
(* MPCSigningProtocol                                                      *)
(***************************************************************************)
\* SigningKey.get_verifying_key: the public point d * G
VerifyingKey(d) == (d * CurveGenerator) % CurveOrder

\* the protocol object after the constructor ran to its end
ReadyProtocol(num_participants, threshold) ==
    [status |-> "ready",
     args |-> <<num_participants, threshold>>,
     num_participants |-> num_participants,
     threshold |-> threshold,
     shared_prime |-> CurveOrder,
     participants |->
         [i \in 1..num_participants |->
             NewParticipant(i - 1, num_participants, CurveOrder, None)],
     private_key |-> None,
     public_key |-> None,
     key_shares |-> <<>>]

\* the constructor raised ValueError: no object, no participant, no key
FailedProtocol(num_participants, threshold) ==
    [NoProtocol EXCEPT !.status = "ValueError",
                       !.args = <<num_participants, threshold>>]

\* the constructor without the check threshold < 2
NewProtocol_NoLowerBound(num_participants, threshold) ==
    IF threshold > num_participants
    THEN FailedProtocol(num_participants, threshold)
    ELSE ReadyProtocol(num_participants, threshold)

\* MPCSigningProtocol.__init__
NewProtocol(num_participants, threshold) ==
    IF threshold > num_participants
    THEN FailedProtocol(num_participants, threshold)
    ELSE IF threshold < 2
         THEN FailedProtocol(num_participants, threshold)
         ELSE ReadyProtocol(num_participants, threshold)

\* protocol = MPCSigningProtocol(num_participants, threshold)
ProtocolInit(num_participants, threshold) ==
    /\ protocol.status = "none"
    /\ protocol' = NewProtocol(num_participants, threshold)
    /\ UNCHANGED <<participant, gen, rec, inv, secrecy, ext>>

\* the loop appending to the participant's share list
Distribute_Appends(participants, key_shares) ==
    [i \in 1..Len(participants) |->
        IF i <= Len(key_shares)
        THEN [participants[i] EXCEPT !.shares =
                 Append(@, Encrypt(participants[i].secure_channel,
                                   PyBytes(StrEncode(key_shares[i]))).value)]
        ELSE participants[i]]

\* the loop "for i, share in enumerate(self.key_shares)": participant i's
\* share list is replaced by the one share encrypted under its own channel
Distribute(participants, key_shares) ==
    [i \in 1..Len(participants) |->
        IF i <= Len(key_shares)
        THEN [participants[i] EXCEPT !.shares =
                 <<Encrypt(participants[i].secure_channel,
                           PyBytes(StrEncode(key_shares[i]))).value>>]
        ELSE participants[i]]

\* protocol.generate_key_shares(), SigningKey.generate drawing the scalar d
\* and participants[0].generate_shares drawing draws
GenerateKeyShares(d, draws) ==
    /\ protocol.status = "ready"
    /\ \E r \in {GenerateShares(protocol.participants[1], d, draws)} :
          protocol' =
             [protocol EXCEPT
                !.private_key = d,
                !.public_key = VerifyingKey(d),
                !.key_shares = IF r.outcome = "return" THEN r.shares ELSE @,
                !.participants =
                    IF r.outcome = "return" THEN Distribute(@, r.shares) ELSE @]
    /\ UNCHANGED <<participant, gen, rec, inv, secrecy, ext>>

\* the body of the inner loop of setup_secure_channels for participant i
\* and other participant j: i is given j's public key, encrypts its own
\* symmetric key for j, and j receives it
SetupPair(participants, i, j) ==
    LET set == SetPartnerPublicKey(participants[i].secure_channel,
                   GetPublicKey(participants[j].secure_channel))
        encrypted_key == ExchangeSymmetricKey(set.channel)
        received == ReceiveSymmetricKey(participants[j].secure_channel,
                                        encrypted_key.value)
    IN  IF encrypted_key.outcome # "return"
        THEN [outcome |-> encrypted_key.outcome,
              participants |->
                  [participants EXCEPT ![i].secure_channel = set.channel]]
        ELSE [outcome |-> received.outcome,
              participants |->
                  [participants EXCEPT ![i].secure_channel = set.channel,
                                       ![j].secure_channel = received.channel]]

\* the loops "for i, participant" and "for j, other_participant" of
\* setup_secure_channels, from the pair (i, j) on
RECURSIVE SetupLoop(_, _, _)
SetupLoop(participants, i, j) ==
    IF i > Len(participants)
    THEN [outcome |-> "return", participants |-> participants]
    ELSE IF j > Len(participants)
         THEN SetupLoop(participants, i + 1, 1)
         ELSE IF i = j
              THEN SetupLoop(participants, i, j + 1)
              ELSE LET r == SetupPair(participants, i, j)
                   IN  IF r.outcome # "return"
                       THEN r
                       ELSE SetupLoop(r.participants, i, j + 1)

\* protocol.setup_secure_channels()
SetupSecureChannels ==
    /\ protocol.status = "ready"
    /\ \E r \in {SetupLoop(protocol.participants, 1, 1)} :
          /\ protocol' = [protocol EXCEPT !.participants = r.participants]
          /\ pcall' = [NoPCall EXCEPT !.op = "setup_secure_channels",
                                      !.outcome = r.outcome]
    /\ UNCHANGED <<participant, gen, rec, inv, secrecy,
                   prev, threads, channels, ccall>>

NextProtocol ==
    \/ \E n \in 0..MaxProtocolN, t \in 0..(MaxProtocolN + 1) : ProtocolInit(n, t)
    \/ SetupSecureChannels
    \/ \E d \in 1..(CurveOrder - 1) :
       \E draws \in [1..(protocol.num_participants - 1) -> 0..(CurveOrder - 1)] :
          GenerateKeyShares(d, draws)

SpecProtocol == Init /\ [][NextProtocol]_vars

(***************************************************************************)
(* sign_message and verify_signature.  The ecdsa library is not part of    *)
(* the repository: SigningKey.sign hands back some 64 bytes, read here as  *)
(* the two integers they encode, and VerifyingKey.verify accepts or raises.*)
(***************************************************************************)
\* sign_message without the check of private_key and key_shares
SignMessage_Unchecked(self, message, signature) ==
    IF \/ signature[1] = 0 \/ signature[2] = 0
       \/ signature[1] >= CurveOrder \/ signature[2] >= CurveOrder
    THEN [outcome |-> "return", result |-> <<1, 1>>]
    ELSE [outcome |-> "return", result |-> signature]

\* self.sign_message(message) when private_key.sign returns the bytes of
\* signature = <<r_int, s_int>>
SignMessage(self, message, signature) ==
    IF self.private_key = None \/ self.key_shares = <<>>
    THEN [outcome |-> "ValueError", result |-> <<0, 0>>]
    ELSE IF \/ signature[1] = 0 \/ signature[2] = 0
            \/ signature[1] >= CurveOrder \/ signature[2] >= CurveOrder
         THEN [outcome |-> "return", result |-> <<1, 1>>]
         ELSE [outcome |-> "return", result |-> signature]

\* self.verify_signature(message, signature) when public_key.verify accepts
\* (accepted) or raises; to_bytes raises OverflowError for a negative integer
VerifySignature(self, message, signature, accepted) ==
    IF self.public_key = None
    THEN [outcome |-> "ValueError", valid |-> FALSE]
    ELSE IF signature[1] < 0 \/ signature[2] < 0
         THEN [outcome |-> "return", valid |-> FALSE]
         ELSE [outcome |-> "return", valid |-> accepted]

SigningFrame == UNCHANGED <<participant, gen, rec, inv, secrecy, protocol,
                            prev, threads, channels, ccall>>

\* protocol.sign_message(message)
CallSignMessage(message, signature) ==
    /\ protocol.status = "ready"
    /\ \E r \in {SignMessage(protocol, message, signature)} :
          pcall' = [NoPCall EXCEPT !.op = "sign_message",
                                   !.message = message,
                                   !.outcome = r.outcome,
                                   !.result = r.result]
    /\ SigningFrame

\* protocol.verify_signature(message, signature)
CallVerifySignature(message, signature, accepted) ==
    /\ protocol.status = "ready"
    /\ \E r \in {VerifySignature(protocol, message, signature, accepted)} :
          pcall' = [NoPCall EXCEPT !.op = "verify_signature",
                                   !.message = message,
                                   !.signature = signature,
                                   !.outcome = r.outcome,
                                   !.valid = r.valid]
    /\ SigningFrame

\* the messages signed and the signatures passed to verify_signature
SignedMessages == {"hello"}

Signatures == {-1, 1} \X {1, 2}

\* under SpecSigning the key is generated once; sign_message and
\* verify_signature are called at any time, before and after
NextSigning ==
    \/ \E n \in 0..MaxProtocolN, t \in 0..(MaxProtocolN + 1) : ProtocolInit(n, t)
    \/ /\ protocol.private_key = None
       /\ \E d \in 1..(CurveOrder - 1) :
          \E draws \in [1..(protocol.num_participants - 1) -> 0..(CurveOrder - 1)] :
             GenerateKeyShares(d, draws)
    \/ \E message \in SignedMessages :
       \E signature \in (0..CurveOrder) \X (0..CurveOrder) :
          CallSignMessage(message, signature)
    \/ \E message \in SignedMessages, signature \in Signatures :
       \E accepted \in BOOLEAN :
          CallVerifySignature(message, signature, accepted)

SpecSigning == Init /\ [][NextSigning]_vars

(***************************************************************************)
(* Two SecureChannel objects A and B and the calls made on them.  An       *)
(* argument of a call is the value the call before it returned, or a value *)
(* made up by the caller.                                                  *)
(***************************************************************************)
Other(X) == IF X = "A" THEN "B" ELSE "A"

\* what has happened on a channel: set_partner_public_key was called,
\* receive_symmetric_key succeeded, and its last success was on the value
\* the other channel's exchange_symmetric_key had just returned
NoHistory == [set_called |-> FALSE, received |-> FALSE, paired |-> FALSE]

NewChannels ==
    [A |-> NewSecureChannel(1), B |-> NewSecureChannel(2),
     hist |-> [A |-> NoHistory, B |-> NoHistory]]

\* the messages callers encrypt: two byte strings and a str
Messages == {PyBytes(<<104>>), PyBytes(<<>>), PyStr(<<104>>)}

\* where an argument comes from: the call before, if it returned this value,
\* or the caller
Source(arg) ==
    IF ccall.outcome = "return" /\ arg = ccall.result
    THEN [op |-> ccall.op, who |-> ccall.who, args |-> ccall.args]
    ELSE NoCall.src

\* the values a caller can pass on to a channel as a ciphertext
Ciphertexts(X) ==
    {ccall.result, PyBytes(<<0>>), RsaEncrypt(GetPublicKey(channels[X]), <<0>>)}

InitChannel ==
    /\ participant = NoParticipant
    /\ gen = NoGen
    /\ rec = NoRec
    /\ inv = NoInv
    /\ secrecy = NoSecrecy
    /\ protocol = NoProtocol
    /\ prev = NoGen
    /\ threads = <<>>
    /\ channels = NewChannels
    /\ ccall = NoCall
    /\ pcall = NoPCall

\* the record of the call X.op(arg) with result r
Called(X, op, arg, r) ==
    [op |-> op, who |-> X, args |-> <<arg>>, outcome |-> r.outcome,
     result |-> r.value, src |-> Source(arg)]

\* the record of a call whose arguments are no ciphertexts or messages
CalledWith(X, op, args, r) ==
    [op |-> op, who |-> X, args |-> args, outcome |-> r.outcome,
     result |-> r.value, src |-> NoCall.src]

ChannelFrame == UNCHANGED <<participant, gen, rec, inv, secrecy, protocol,
                            prev, threads, pcall>>

\* X.set_partner_public_key(partner_public_key)
CallSetPartnerPublicKey(X, partner_public_key) ==
    /\ \E r \in {SetPartnerPublicKey(channels[X], partner_public_key)} :
          /\ channels' = [channels EXCEPT ![X] = r.channel,
                                          !.hist[X].set_called = TRUE]
          /\ ccall' = CalledWith(X, "set_partner_public_key",
                              <<partner_public_key>>, r)
    /\ ChannelFrame

\* X.exchange_symmetric_key()
CallExchangeSymmetricKey(X) ==
    /\ \E r \in {ExchangeSymmetricKey(channels[X])} :
          /\ channels' = [channels EXCEPT ![X] = r.channel]
          /\ ccall' = CalledWith(X, "exchange_symmetric_key", <<>>, r)
    /\ ChannelFrame

\* X.receive_symmetric_key(encrypted_symmetric_key)
CallReceiveSymmetricKey(X, encrypted_symmetric_key) ==
    /\ \E r \in {ReceiveSymmetricKey(channels[X], encrypted_symmetric_key)} :
       \E src \in {Source(encrypted_symmetric_key)} :
          /\ channels' =
                [channels EXCEPT
                    ![X] = r.channel,
                    !.hist[X] =
                        IF r.outcome = "return"
                        THEN [@ EXCEPT !.received = TRUE,
                                       !.paired =
                                           /\ src.op = "exchange_symmetric_key"
                                           /\ src.who = Other(X)]
                        ELSE @]
          /\ ccall' = Called(X, "receive_symmetric_key",
                             encrypted_symmetric_key, r)
    /\ ChannelFrame

\* X.encrypt(message)
CallEncrypt(X, message) ==
    /\ \E r \in {Encrypt(channels[X], message)} :
          /\ channels' = [channels EXCEPT ![X] = r.channel]
          /\ ccall' = Called(X, "encrypt", message, r)
    /\ ChannelFrame

\* X.decrypt(encrypted_message)
CallDecrypt(X, encrypted_message) ==
    /\ \E r \in {Decrypt(channels[X], encrypted_message)} :
          /\ channels' = [channels EXCEPT ![X] = r.channel]
          /\ ccall' = Called(X, "decrypt", encrypted_message, r)
    /\ ChannelFrame

\* X.encrypt_for_partner(message)
CallEncryptForPartner(X, message) ==
    /\ \E r \in {EncryptForPartner(channels[X], message)} :
          /\ channels' = [channels EXCEPT ![X] = r.channel]
          /\ ccall' = Called(X, "encrypt_for_partner", message, r)
    /\ ChannelFrame

\* X.decrypt_from_partner(encrypted_message)
CallDecryptFromPartner(X, encrypted_message) ==
    /\ encrypted_message.type = "bytes"
    /\ \E r \in {DecryptFromPartner(channels[X], encrypted_message)} :
          /\ channels' = [channels EXCEPT ![X] = r.channel]
          /\ ccall' = Called(X, "decrypt_from_partner", encrypted_message, r)
    /\ ChannelFrame

NextChannel ==
    \E X \in {"A", "B"} :
       \/ \E Y \in {"A", "B"} :
             CallSetPartnerPublicKey(X, GetPublicKey(channels[Y]))
       \/ CallExchangeSymmetricKey(X)
       \/ \E c \in Ciphertexts(X) : CallReceiveSymmetricKey(X, c)
       \/ \E m \in Messages : CallEncrypt(X, m)
       \/ \E c \in Ciphertexts(X) : CallDecrypt(X, c)
       \/ \E m \in Messages : CallEncryptForPartner(X, m)
       \/ \E c \in Ciphertexts(X) : CallDecryptFromPartner(X, c)

SpecChannel == InitChannel /\ [][NextChannel]_vars

(***************************************************************************)
(* Properties.                                                             *)
(***************************************************************************)
\* the participant's threshold is one the scheme allows: 2 <= t <= N
ThresholdInRange ==
    /\ participant.exists
    /\ 2 <= participant.threshold
    /\ participant.threshold <= participant.num_participants

\* f(x) = coefficients[1] + coefficients[2] * x + ... over the integers
RECURSIVE PolyValue(_, _)
PolyValue(coefficients, x) ==
    IF coefficients = <<>>
    THEN 0
    ELSE Head(coefficients) + x * PolyValue(Tail(coefficients), x)

\* the caller passed the first t of the generated shares
PrefixCall ==
    /\ rec.op = "called"
    /\ rec.indices = 1..participant.threshold

\* C1 as stated: for every prime p and 2 <= t <= N, reconstructing from the
\* first t shares of generate_shares(s) returns s.
C1_RoundTripEveryPrime ==
    (ThresholdInRange /\ PrefixCall)
        => (rec.outcome = "return" /\ rec.value = gen.secret)

\* C1 amended: for every prime p and 2 <= t <= N with t <= p, every secret
\* s in [0, p) and every choice of the coefficients, reconstructing from the
\* first t shares of generate_shares(s) returns s.
C1_RoundTrip ==
    (ThresholdInRange /\ PrefixCall
        /\ participant.threshold <= participant.shared_prime)
        => (rec.outcome = "return" /\ rec.value = gen.secret)

C1_Witness ==
    /\ ThresholdInRange /\ PrefixCall
    /\ participant.threshold = 3
    /\ participant.num_participants = 4
    /\ gen.secret = participant.shared_prime - 1
    /\ gen.coefficients[3] # 0
    /\ rec.outcome = "return"
    /\ rec.value = gen.secret

\* C2: in a configuration 2 <= t <= N < p, any t of the N generated shares,
\* passed in ascending index order, reconstruct the secret.
C2_AnySubsetReconstructs ==
    (/\ ThresholdInRange
     /\ participant.num_participants < participant.shared_prime
     /\ rec.op = "called"
     /\ Cardinality(rec.indices) = participant.threshold)
        => (rec.outcome = "return" /\ rec.value = gen.secret)

\* C3: for N < p and the values seen at fewer than t share indices, the number
\* of coefficient vectors generate_shares can draw that produce these values
\* is the same for every secret.
C3_FewerSharesRevealNothing ==
    (/\ secrecy.stage = "counting"
     /\ participant.num_participants < participant.shared_prime)
        => \A s1, s2 \in 1..Len(secrecy.counts) :
              secrecy.counts[s1] = secrecy.counts[s2]

C3_Witness ==
    /\ secrecy.stage = "counting"
    /\ participant.num_participants < participant.shared_prime
    /\ participant.threshold = 3
    /\ Cardinality(secrecy.indices) = 2
    /\ Len(secrecy.counts) = participant.shared_prime
    /\ secrecy.counts[1] > 0

\* C4: generate_shares(secret) with 0 <= secret < p returns N values, the one
\* at position i being f(i) mod p for f(x) = secret + sum a_j x^j over the
\* t-1 coefficients a_j drawn from [0, p) in the call, each value in [0, p).
C4_SharesArePolynomialValues ==
    (/\ gen.op = "called"
     /\ participant.threshold >= 1
     /\ 0 <= gen.secret /\ gen.secret < participant.shared_prime)
        => /\ gen.outcome = "return"
           /\ Len(gen.shares) = participant.num_participants
           /\ Len(gen.coefficients) = participant.threshold
           /\ gen.ndraws = participant.threshold - 1
           /\ gen.coefficients[1] = gen.secret
           /\ \A j \in 1..Len(gen.coefficients) :
                 gen.coefficients[j] \in 0..(participant.shared_prime - 1)
           /\ \A i \in 1..participant.num_participants :
                 /\ gen.shares[i] =
                       PolyValue(gen.coefficients, i) % participant.shared_prime
                 /\ gen.shares[i] \in 0..(participant.shared_prime - 1)

C4_Witness ==
    /\ gen.op = "called" /\ gen.outcome = "return"
    /\ participant.threshold = 3
    /\ participant.num_participants = 4
    /\ PolyValue(gen.coefficients, 4) >= participant.shared_prime
    /\ gen.shares[4] = PolyValue(gen.coefficients, 4) % participant.shared_prime

\* C5: generate_shares(secret) with secret outside [0, p) fails with
\* ValueError, returns no shares and draws no coefficient.
C5_SecretOutOfRange ==
    (/\ gen.op = "called"
     /\ (gen.secret < 0 \/ gen.secret >= participant.shared_prime))
        => /\ gen.outcome = "ValueError"
           /\ gen.shares = <<>>
           /\ gen.coefficients = <<>>
           /\ gen.ndraws = 0

C5_Witness ==
    /\ gen.op = "called"
    /\ gen.secret = participant.shared_prime
    /\ participant.threshold >= 2
    /\ gen.outcome = "ValueError"
    /\ gen.ndraws = 0

\* the caller passed more shares than the threshold
LongCall == rec.op = "called" /\ Len(rec.input) > participant.threshold

\* the outcome and value of a reconstruction record or result
Result(r) == <<r.outcome, r.value>>

\* C6 as stated: more than t shares give the value the first t give, hence
\* all N generated shares, in generation order, give the secret.
C6_TruncationReturnsSecret ==
    /\ LongCall =>
          /\ rec.outcome = "return"
          /\ Result(rec) = Result(ReconstructSecret(participant,
                              SubSeq(rec.input, 1, participant.threshold)))
    /\ (/\ ThresholdInRange
        /\ rec.op = "called"
        /\ rec.indices = 1..participant.num_participants)
          => (rec.outcome = "return" /\ rec.value = gen.secret)

\* C6 amended: more than t shares have the outcome the first t have (the same
\* value or the same exception); hence, when t <= p, all N generated shares,
\* in generation order, give the secret.
C6_Truncation ==
    /\ LongCall =>
          /\ Result(rec) = Result(ReconstructSecret(participant,
                              SubSeq(rec.input, 1, participant.threshold)))
          /\ rec.used = SubSeq(rec.input, 1, participant.threshold)
    /\ (/\ ThresholdInRange
        /\ participant.threshold <= participant.shared_prime
        /\ rec.op = "called"
        /\ rec.indices = 1..participant.num_participants)
          => (rec.outcome = "return" /\ rec.value = gen.secret)

C6_Witness ==
    /\ ThresholdInRange /\ LongCall
    /\ participant.threshold = 2
    /\ rec.indices = 1..participant.num_participants
    /\ participant.num_participants = 4
    /\ rec.used = SubSeq(gen.shares, 1, 2)
    /\ gen.coefficients[2] # 0
    /\ rec.outcome = "return"
    /\ rec.value = gen.secret

\* the caller passed k shares, 1 <= k < t, in a configuration 2 <= t <= N
ShortCall ==
    /\ ThresholdInRange
    /\ rec.op = "called"
    /\ 1 <= Len(rec.input)
    /\ Len(rec.input) < participant.threshold

C8_ThresholdCheckedAtConstruction ==
    participant.exists =>
        /\ 2 <= participant.threshold
        /\ participant.threshold <= participant.num_participants

\* C9: MPCSigningProtocol(n, t) raises ValueError when t > n or t < 2, before
\* any participant or key exists; otherwise it yields a protocol with n
\* participants, threshold t and both keys unset.
C9_ProtocolConstruction ==
    [][protocol.status = "none" /\ protocol'.status # "none" =>
          LET n == protocol'.args[1]
              t == protocol'.args[2]
          IN  IF t > n \/ t < 2
              THEN /\ protocol'.status = "ValueError"
                   /\ protocol'.participants = <<>>
                   /\ protocol'.key_shares = <<>>
                   /\ protocol'.private_key = None
                   /\ protocol'.public_key = None
              ELSE /\ protocol'.status = "ready"
                   /\ protocol'.num_participants = n
                   /\ Len(protocol'.participants) = n
                   /\ \A i \in 1..n : protocol'.participants[i].exists
                   /\ protocol'.threshold = t
                   /\ protocol'.private_key = None
                   /\ protocol'.public_key = None]_vars

C9_Witness ==
    /\ protocol.status = "ValueError"
    /\ protocol.args = <<3, 4>>
    /\ protocol.participants = <<>>

\* C10: for a prime m, _mod_inverse(a, m) returns the x in [0, m) with
\* a * x = 1 (mod m) when a mod m # 0, and raises exactly when m divides a.
C10_ModInverseOfEveryInteger ==
    (inv.op = "called" /\ IsPrime(inv.m)) =>
        IF inv.a % inv.m # 0
        THEN /\ inv.outcome = "return"
             /\ inv.value \in 0..(inv.m - 1)
             /\ (inv.a * inv.value) % inv.m = 1
        ELSE inv.outcome = "Exception"

\* C11: once generate_key_shares has run, the key is shared with a polynomial
\* of degree threshold - 1 of the protocol, so that the first threshold
\* entries of key_shares, passed to a participant's reconstruct_secret, give
\* back the private-key scalar
C11_ProtocolThresholdGovernsSharing ==
    protocol.private_key # None =>
        /\ NumDraws(protocol.participants[1]) = protocol.threshold - 1
        /\ \A i \in 1..protocol.num_participants :
              LET r == ReconstructSecret(protocol.participants[i],
                           SubSeq(protocol.key_shares, 1, protocol.threshold))
              IN  r.outcome = "return" /\ r.value = protocol.private_key

\* a call on channel X that raises leaves both channels' own and partner
\* keys as they were
KeysUnchanged == channels'.A = channels.A /\ channels'.B = channels.B

\* C13: exchange_symmetric_key raises ValueError on a channel whose
\* set_partner_public_key was never called; encrypt_for_partner and
\* decrypt_from_partner raise ValueError on a channel whose
\* receive_symmetric_key never succeeded; encrypt raises TypeError for a
\* message that is not bytes; each of these failures leaves the keys unchanged
C13_ChannelOrdering ==
    [][LET X == ccall'.who
           h == channels.hist[X]
       IN  /\ (ccall'.op = "exchange_symmetric_key" /\ ~h.set_called) =>
                  (ccall'.outcome = "ValueError" /\ KeysUnchanged)
           /\ (/\ ccall'.op \in {"encrypt_for_partner", "decrypt_from_partner"}
               /\ ~h.received) =>
                  (ccall'.outcome = "ValueError" /\ KeysUnchanged)
           /\ (ccall'.op = "encrypt" /\ ccall'.args[1].type # "bytes") =>
                  (ccall'.outcome = "TypeError" /\ KeysUnchanged)]_vars

\* a partner public key is set, no key was received, and encrypt_for_partner
\* of a byte string raised ValueError
C13_Witness ==
    /\ ccall.op = "encrypt_for_partner"
    /\ ccall.args[1].type = "bytes"
    /\ ccall.outcome = "ValueError"
    /\ channels.hist[ccall.who].set_called
    /\ ~channels.hist[ccall.who].received

\* both channels' last successful receive_symmetric_key was on the value the
\* other's exchange_symmetric_key returned
Handshaken == channels.hist.A.paired /\ channels.hist.B.paired

\* C14: after the two-party key exchange, what one channel encrypts with
\* encrypt_for_partner the other channel's decrypt returns unchanged; and on
\* any channel, decrypt of what its own encrypt returned is the message
C14_KeyExchangeRoundTrip ==
    /\ (/\ ccall.op = "decrypt"
        /\ ccall.src.op = "encrypt_for_partner"
        /\ ccall.src.who = Other(ccall.who)
        /\ Handshaken) =>
           (ccall.outcome = "return" /\ ccall.result = ccall.src.args[1])
    /\ (/\ ccall.op = "decrypt"
        /\ ccall.src.op = "encrypt"
        /\ ccall.src.who = ccall.who) =>
           (ccall.outcome = "return" /\ ccall.result = ccall.src.args[1])

\* B.decrypt returned the message A had passed to encrypt_for_partner
C14_Witness ==
    /\ Handshaken
    /\ ccall.op = "decrypt"
    /\ ccall.who = "B"
    /\ ccall.src.op = "encrypt_for_partner"
    /\ ccall.src.who = "A"
    /\ ccall.outcome = "return"
    /\ ccall.result = PyBytes(<<104>>)

\* C15: for N >= 2, setup_secure_channels returns, and afterwards for every
\* ordered pair (i, j) of distinct participants a message that i encrypts
\* with encrypt_for_partner is decrypted by j's channel to the message
C15_ChannelsBetweenAllPairs ==
    (pcall.op = "setup_secure_channels" /\ protocol.num_participants >= 2) =>
        /\ pcall.outcome = "return"
        /\ \A i, j \in 1..protocol.num_participants :
              i # j =>
                 LET token == EncryptForPartner(
                                  protocol.participants[i].secure_channel,
                                  PyBytes(<<104>>))
                     back == Decrypt(protocol.participants[j].secure_channel,
                                     token.value)
                 IN  /\ token.outcome = "return"
                     /\ back.outcome = "return"
                     /\ back.value = PyBytes(<<104>>)

\* int(data) for the ASCII codes of decimal digits
RECURSIVE DecimalValue(_)
DecimalValue(data) ==
    IF data = <<>>
    THEN 0
    ELSE 10 * DecimalValue(SubSeq(data, 1, Len(data) - 1))
            + (data[Len(data)] - 48)

\* C16: after one or more calls of generate_key_shares, private_key and
\* public_key are one key pair, key_shares holds N values that share the
\* current private-key scalar, and every participant holds exactly one share
\* entry, which its own channel decrypts to the decimal digits of its key share
C16_KeyShareDistribution ==
    protocol.private_key # None =>
        /\ protocol.public_key # None
        /\ protocol.public_key =
              (protocol.private_key * CurveGenerator) % CurveOrder
        /\ Len(protocol.key_shares) = protocol.num_participants
        /\ \E r \in {ReconstructSecret(protocol.participants[1],
                                        protocol.key_shares)} :
              r.outcome = "return" /\ r.value = protocol.private_key
        /\ \A i \in 1..protocol.num_participants :
              /\ Len(protocol.participants[i].shares) = 1
              /\ \E r \in {Decrypt(protocol.participants[i].secure_channel,
                                    protocol.participants[i].shares[1])} :
                    /\ r.outcome = "return"
                    /\ r.value.data = StrEncode(protocol.key_shares[i])
                    /\ DecimalValue(r.value.data) = protocol.key_shares[i]

\* three participants hold their shares of the scalar 2, drawn with the
\* coefficients 1 and 3, after the channels were set up
C16_Witness ==
    /\ protocol.num_participants = 3
    /\ protocol.private_key = 2
    /\ protocol.key_shares = <<1, 1, 2>>
    /\ pcall.op = "setup_secure_channels"
    /\ \A i \in 1..3 : Len(protocol.participants[i].shares) = 1

\* C12: while generate_key_shares has not completed, sign_message and
\* verify_signature raise ValueError and leave the protocol object as it
\* is; once it has completed, sign_message returns a pair of integers
C12_SigningNeedsKeys ==
    [][(pcall' # pcall /\ pcall'.op \in {"sign_message", "verify_signature"}) =>
          /\ protocol.key_shares = <<>> =>
                (pcall'.outcome = "ValueError" /\ protocol' = protocol)
          /\ (protocol.key_shares # <<>> /\ pcall'.op = "sign_message") =>
                /\ pcall'.outcome = "return"
                /\ Len(pcall'.result) = 2
                /\ pcall'.result[1] \in Int
                /\ pcall'.result[2] \in Int]_vars

\* the key is generated and sign_message has returned the pair (2, 3)
C12_Witness ==
    /\ protocol.key_shares # <<>>
    /\ pcall.op = "sign_message"
    /\ pcall.outcome = "return"
    /\ pcall.result = <<2, 3>>

\* the last two generate_shares calls returned and shared the same secret
SameSecretTwice ==
    /\ prev.outcome = "return"
    /\ gen.outcome = "return"
    /\ prev.secret = gen.secret

C18_Stateless ==
    [][/\ participant' = participant
       /\ gen' # gen =>
             \E r \in {GenerateShares(participant, gen'.secret, gen'.draws)} :
                /\ gen'.outcome = r.outcome
                /\ gen'.shares = r.shares
       /\ rec' # rec =>
             /\ rec'.list = rec'.input
             /\ \E r \in {ReconstructSecret(participant, rec'.input)} :
                   /\ rec'.outcome = r.outcome
                   /\ rec'.value = r.value]_vars

\* after a generate_shares call that raised, the next one returned, and
\* reconstruct_secret was passed more than threshold shares
C18_Witness ==
    /\ prev.outcome = "ValueError"
    /\ gen.outcome = "return"
    /\ rec.outcome = "return"
    /\ Len(rec.input) > participant.threshold
    /\ rec.list = rec.input

\* the polynomials over GF(p) with as many coefficients as ys has values
\* that take the value ys[i] at every position i
Through(ys, p) ==
    {c \in [1..Len(ys) -> 0..(p - 1)] :
        \A i \in 1..Len(ys) : PolyValue(c, i) % p = ys[i] % p}

\* C20: on k' = min(k, t) used values y_1..y_k' with k' < p,
\* reconstruct_secret returns g(0) for the one polynomial g of degree < k'
\* over GF(p) with g(i) = y_i at the positions i = 1..k'
C20_PositionalInterpolation ==
    (/\ rec.op = "called"
     /\ Len(rec.used) >= 1
     /\ Len(rec.used) < participant.shared_prime) =>
        /\ Len(rec.used) =
              IF Len(rec.input) > participant.threshold
              THEN participant.threshold ELSE Len(rec.input)
        /\ rec.outcome = "return"
        /\ \E G \in {Through(rec.used, participant.shared_prime)} :
              /\ Cardinality(G) = 1
              /\ \A g \in G : rec.value = g[1]

\* the values 1 and 3, shares 1 and 3 of the polynomial x over GF(5), are
\* interpolated at the positions 1 and 2 by 2x - 1, whose value at 0 is 4
C20_Witness ==
    /\ participant.shared_prime = 5
    /\ participant.threshold = 2
    /\ rec.input = <<1, 3>>
    /\ rec.outcome = "return"
    /\ rec.value = 4

\* C19: whatever the interleaving of the statements of generate_shares and
\* reconstruct_secret calls on one participant, each call ends as it would
\* if run alone with the same argument and the same draws
C19_AsIfAlone ==
    \A th \in Threads :
       threads[th].pc = "done" =>
          IF threads[th].op = "generate_shares"
          THEN \E r \in {GenerateShares(participant, threads[th].arg[1],
                                         threads[th].draws)} :
                  /\ threads[th].outcome = r.outcome
                  /\ threads[th].result = r.shares
                  /\ Len(threads[th].draws) = r.ndraws
          ELSE \E r \in {ReconstructSecret(participant, threads[th].arg)} :
                  /\ threads[th].outcome = r.outcome
                  /\ r.outcome = "return" => threads[th].result = <<r.value>>

\* a generate_shares call with a draw has returned while a
\* reconstruct_secret call is inside its inner loop
C19_Witness ==
    /\ threads[1].op = "generate_shares"
    /\ threads[1].pc = "done"
    /\ threads[1].outcome = "return"
    /\ threads[1].draws # <<>>
    /\ threads[2].op = "reconstruct_secret"
    /\ threads[2].pc = "inner"
    /\ threads[2].i = 1

\* the denominators reconstruct_secret passes to _mod_inverse when it runs
\* all iterations on n used shares: one for each i in range(n)
Denominators(n, p) == [i \in 1..n |-> Basis(i - 1, n, p, 0, <<1, 1>>)[2]]

\* C21: for a prime shared_prime p, reconstruct_secret raises 'Modular
\* inverse does not exist' exactly when the number of shares used is
\* greater than p; when it is at most p every denominator passed to
\* _mod_inverse lies in [1, p) and the call returns; and a call in which an
\* inversion fails returns no value
C21_RaisesIffMoreSharesThanPrime ==
    rec.op = "called" =>
        \E n \in {Len(rec.used)} :
        \E p \in {participant.shared_prime} :
           /\ n = IF Len(rec.input) > participant.threshold
                  THEN participant.threshold ELSE Len(rec.input)
           /\ (rec.outcome = "Exception") <=> (n > p)
           /\ n <= p =>
                 /\ \A i \in 1..n : Denominators(n, p)[i] \in 1..(p - 1)
                 /\ rec.outcome = "return"
           /\ (\E i \in 1..n :
                   ModInverse(Denominators(n, p)[i], p).outcome # "return") =>
                 rec.outcome # "return"

\* four shares used over GF(3): the nodes 1 and 4 are congruent, the call
\* raised
C21_Witness ==
    /\ participant.shared_prime = 3
    /\ Len(rec.used) = 4
    /\ rec.outcome = "Exception"

\* C22: generate_shares accepts num_participants >= shared_prime, and then,
\* whatever the secret and the coefficients, the share at every position
\* that is a multiple of shared_prime, position shared_prime among them, is
\* the secret itself; for num_participants < shared_prime no position is a
\* multiple of shared_prime
C22_ShareAtMultipleOfPrimeIsSecret ==
    (/\ gen.op = "called"
     /\ 0 <= gen.secret
     /\ gen.secret < participant.shared_prime) =>
        /\ gen.outcome = "return"
        /\ Len(gen.shares) = participant.num_participants
        /\ \A i \in 1..participant.num_participants :
              i % participant.shared_prime = 0 => gen.shares[i] = gen.secret
        /\ participant.num_participants >= participant.shared_prime =>
              gen.shares[participant.shared_prime] = gen.secret
        /\ participant.num_participants < participant.shared_prime =>
              \A i \in 1..participant.num_participants :
                 i % participant.shared_prime # 0

\* four shares over GF(3) of the secret 2 with a non-zero coefficient: the
\* third share is 2, the first is not
C22_Witness ==
    /\ participant.num_participants = 4
    /\ participant.shared_prime = 3
    /\ gen.outcome = "return"
    /\ gen.secret = 2
    /\ Len(gen.coefficients) >= 2
    /\ gen.coefficients[2] # 0
    /\ gen.shares[3] = 2
    /\ gen.shares[1] # 2

====
